---- MODULE Spec2Model ----
(***************************************************************************)
(* Model of add2.py, the Streamlit synthetic-data generator: the session   *)
(* state (generated_data, gan_data, metadata, transformation_code), the    *)
(* button handlers that change it, and the pure helpers they call.         *)
(*                                                                         *)
(* A dataframe is a function from column names to columns; a column is a   *)
(* record [dtype, vals] where dtype is "num" (pandas numeric dtype, values *)
(* are integers) or "obj" (pandas object dtype, values are strings).       *)
(* Python's None is the record None.  A Python exception leaving a call is *)
(* the record Raise(kind).                                                 *)
(***************************************************************************)
EXTENDS Integers, Sequences, FiniteSets, TLC

VARIABLES
    generated_data,      \* st.session_state.generated_data
    gan_data,            \* st.session_state.gan_data
    metadata,            \* st.session_state.metadata
    transformation_code, \* st.session_state.transformation_code (None: key absent)
    pc,                  \* "idle", or "gen" while the chunk loop of Generate runs
    row_count,           \* the Generate handler's row_count
    chunk_size,          \* the Generate handler's chunk_size
    i,                   \* the chunk loop's index
    chunks,              \* the chunk loop's list of received chunks
    requests,            \* the calls of generate_data_chunk made by the handler
    constraints,         \* the constraint mapping last handed to the validator
    result,              \* the value the last call / handler computed
    op,                  \* the last operation and its inputs
    msgs,                \* the st.error / st.success / st.warning of the last operation
    unhandled,           \* the last operation ended in an exception nobody caught
    events               \* the external calls the last operation made, in order

vars == <<generated_data, gan_data, metadata, transformation_code, pc, row_count,
          chunk_size, i, chunks, requests, constraints, result, op, msgs,
          unhandled, events>>

----------------------------------------------------------------------------
(* Bounds of the model *)

MaxVal == 2
MaxRows == 2
MaxOrigRows == 1

----------------------------------------------------------------------------
(* Values *)

None == [none |-> TRUE]
Raise(kind) == [raised |-> kind]
IsRaise(v) == "raised" \in DOMAIN v

Vals == 0..MaxVal

RECURSIVE SumSeq(_)
SumSeq(s) == IF s = <<>> THEN 0 ELSE Head(s) + SumSeq(Tail(s))

SqSeq(s) == [k \in 1..Len(s) |-> s[k] * s[k]]

NumColumn(v) == [dtype |-> "num", vals |-> v]
ObjColumn(v) == [dtype |-> "obj", vals |-> v]

NumColumns(n) == {NumColumn(v) : v \in [1..n -> Vals]}
ObjColumns(n) == {ObjColumn([k \in 1..n |-> "x"])}

\* pd.api.types.is_numeric_dtype
is_numeric_dtype(col) == col.dtype = "num"

\* Series.mean(): the exact rational sum/n (NaN when n = 0)
Mean(col) == [sum |-> SumSeq(col.vals), n |-> Len(col.vals)]

\* Series.std(): the square root of the exact rational ss/d (NaN when d = 0)
Std(col) ==
    LET n == Len(col.vals)
        s == SumSeq(col.vals)
    IN [ss |-> n * SumSeq(SqSeq(col.vals)) - s * s, d |-> n * (n - 1)]

\* (series < bound): TypeError when an object column holds a string
CompareRaises(col) == col.dtype = "obj" /\ Len(col.vals) > 0

\* (series < bound).sum()
CountLess(col, bound) ==
    Cardinality({k \in 1..Len(col.vals) : col.vals[k] < bound})

\* (series > bound).sum()
CountGreater(col, bound) ==
    Cardinality({k \in 1..Len(col.vals) : col.vals[k] > bound})

----------------------------------------------------------------------------
(* validate_synthetic_data *)

\* a slip of the comparison operators: rows equal to a bound are counted too
ColumnViolations_Inclusive(col, cons) ==
    (IF "min" \in DOMAIN cons
     THEN Cardinality({k \in 1..Len(col.vals) : col.vals[k] <= cons.min}) ELSE 0)
    + (IF "max" \in DOMAIN cons
       THEN Cardinality({k \in 1..Len(col.vals) : col.vals[k] >= cons.max}) ELSE 0)

\* a slip: the bounds are checked only when both are declared
ColumnViolations_BothOnly(col, cons) ==
    IF {"min", "max"} \subseteq DOMAIN cons
    THEN CountLess(col, cons.min) + CountGreater(col, cons.max)
    ELSE 0

\* a slip: bounds declared with min > max are put in order before the check
ColumnViolations_Swapped(col, cons) ==
    IF {"min", "max"} \subseteq DOMAIN cons /\ cons.min > cons.max
    THEN CountLess(col, cons.max) + CountGreater(col, cons.min)
    ELSE (IF "min" \in DOMAIN cons THEN CountLess(col, cons.min) ELSE 0)
         + (IF "max" \in DOMAIN cons THEN CountGreater(col, cons.max) ELSE 0)

\* the additions to constraint_violations for one column
ColumnViolations(col, cons) ==
    (IF "min" \in DOMAIN cons THEN CountLess(col, cons.min) ELSE 0)
    + (IF "max" \in DOMAIN cons THEN CountGreater(col, cons.max) ELSE 0)

\* the report entry of one column
ColumnReport(original_data, synthetic_data, cons, column) ==
    [original_mean |-> IF is_numeric_dtype(original_data[column])
                       THEN Mean(original_data[column]) ELSE None,
     synthetic_mean |-> IF is_numeric_dtype(synthetic_data[column])
                        THEN Mean(synthetic_data[column]) ELSE None,
     original_std |-> IF is_numeric_dtype(original_data[column])
                      THEN Std(original_data[column]) ELSE None,
     synthetic_std |-> IF is_numeric_dtype(synthetic_data[column])
                       THEN Std(synthetic_data[column]) ELSE None,
     constraint_violations |->
        IF column \in DOMAIN cons
        THEN ColumnViolations(synthetic_data[column], cons[column])
        ELSE 0]

\* the columns at which the loop raises: synthetic_data[column] is a KeyError,
\* a comparison of strings with a numeric bound a TypeError
ColumnRaises(synthetic_data, cons, column) ==
    \/ column \notin DOMAIN synthetic_data
    \/ /\ column \in DOMAIN cons
       /\ DOMAIN cons[column] # {}
       /\ CompareRaises(synthetic_data[column])

validate_synthetic_data(original_data, synthetic_data, cons) ==
    IF \E column \in DOMAIN original_data :
            ColumnRaises(synthetic_data, cons, column)
    THEN Raise("validate")
    ELSE [report |-> [column \in DOMAIN original_data |->
                ColumnReport(original_data, synthetic_data, cons, column)]]

----------------------------------------------------------------------------
(* Inputs of the validator: dataframes over columns "a" and "b" and        *)
(* constraint mappings for column "a"                                      *)

Frames(n, ACols, BCols) ==
    {[c \in {"a"} |-> ca] : ca \in ACols}
    \cup {[c \in {"a", "b"} |-> IF c = "a" THEN ca ELSE cb] :
            ca \in ACols, cb \in BCols}

DataFrames(maxRows) ==
    UNION {Frames(n, NumColumns(n) \cup ObjColumns(n),
                  {NumColumn([k \in 1..n |-> 1])} \cup ObjColumns(n)) :
           n \in 0..maxRows}

Bounds ==
    {[x \in {} |-> 0]}
    \cup {[min |-> lo] : lo \in Vals}
    \cup {[max |-> hi] : hi \in Vals}
    \cup {[min |-> lo, max |-> hi] : lo \in Vals, hi \in Vals}

ConstraintMaps == {[x \in {} |-> 0]} \cup {[a |-> b] : b \in Bounds}

Idle ==
    /\ pc = "idle" /\ row_count = 0 /\ chunk_size = 0 /\ i = 0
    /\ chunks = <<>> /\ requests = <<>>

InitValidate ==
    /\ generated_data \in DataFrames(MaxOrigRows)
    /\ gan_data \in DataFrames(MaxRows)
    /\ constraints \in ConstraintMaps
    /\ metadata = None /\ transformation_code = None
    /\ Idle
    /\ result = None /\ op = [name |-> "init"] /\ msgs = {}
    /\ unhandled = FALSE /\ events = <<>>

\* a call validate_synthetic_data(generated_data, gan_data, constraints)
CallValidate ==
    /\ op.name = "init"
    /\ result' = validate_synthetic_data(generated_data, gan_data, constraints)
    /\ op' = [name |-> "validate"]
    /\ UNCHANGED <<generated_data, gan_data, metadata, transformation_code, pc,
                   row_count, chunk_size, i, chunks, requests, constraints,
                   msgs, unhandled, events>>

NextValidate == CallValidate

SpecValidate == InitValidate /\ [][NextValidate]_vars

----------------------------------------------------------------------------
(* Text: a string is the sequence of its lines (what split("\n") returns), *)
(* so the empty string is one empty line.  A line is "" (blank), "a" (the  *)
(* header the prompt asks for), "1" or "2" (a data row), or "!" (a line    *)
(* the CSV tokenizer rejects).                                             *)

EmptyText == <<"">>

\* "\n".join(list of lines): the empty list joins to the empty string
JoinLines(lines) == IF lines = <<>> THEN EmptyText ELSE lines

\* "\n".join(list of strings)
RECURSIVE JoinTexts(_)
JoinTexts(texts) ==
    IF texts = <<>> THEN EmptyText
    ELSE IF Len(texts) = 1 THEN Head(texts)
    ELSE Head(texts) \o JoinTexts(Tail(texts))

\* str.strip(): leading and trailing blank lines go
RECURSIVE LStrip(_)
LStrip(text) ==
    IF text = <<>> THEN <<>>
    ELSE IF Head(text) = "" THEN LStrip(Tail(text)) ELSE text

RECURSIVE RStrip(_)
RStrip(text) ==
    IF text = <<>> THEN <<>>
    ELSE IF text[Len(text)] = "" THEN RStrip(SubSeq(text, 1, Len(text) - 1))
    ELSE text

Strip(text) == JoinLines(RStrip(LStrip(text)))

\* int(field) for the digits read_csv finds
ToNum(field) == CHOOSE n \in 0..2 : <<"0", "1", "2">>[n + 1] = field

IsNum(field) == field \in {"0", "1", "2"}

\* pd.read_csv(StringIO(text)): blank lines are skipped, the first line left
\* is the header, the others are the rows of the one column; the column is
\* numeric when every row is a number and an object column of strings otherwise
read_csv(text) ==
    LET lines == SelectSeq(text, LAMBDA l : l # "")
        rows == Tail(lines)
    IN IF lines = <<>> THEN Raise("EmptyDataError")
       ELSE IF \E k \in 1..Len(lines) : lines[k] = "!" THEN Raise("ParserError")
       ELSE [c \in {lines[1]} |->
                IF rows # <<>> /\ \A k \in 1..Len(rows) : IsNum(rows[k])
                THEN NumColumn([k \in 1..Len(rows) |-> ToNum(rows[k])])
                ELSE ObjColumn(rows)]

----------------------------------------------------------------------------
(* Generate Initial Dataset *)

\* math.ceil(row_count / chunk_size)
NumChunks(rows, size) ==
    IF rows % size = 0 THEN rows \div size ELSE rows \div size + 1

Min(x, y) == IF x < y THEN x ELSE y

\* a slip: every request asks for a full chunk
CurrentChunkSize_Full(rows, size, index) == size

\* current_chunk_size = min(chunk_size, row_count - i * chunk_size)
CurrentChunkSize(rows, size, index) == Min(size, rows - index * size)

\* a slip: the later chunks keep their header line
Stitch_KeepHeaders(cs) == JoinTexts(cs)

\* full_data = "\n".join([chunks[0]] + ["\n".join(chunk.split("\n")[1:])
\*                                      for chunk in chunks[1:]])
Stitch(cs) ==
    JoinTexts(<<cs[1]>> \o [k \in 1..(Len(cs) - 1) |-> JoinLines(Tail(cs[k + 1]))])

\* what the text-generation service may answer to one request
Responses ==
    {<<"a", "1">>, <<"a">>, <<"">>, <<"", "a", "2", "">>, <<"2", "1">>,
     <<"a", "!">>}

NoLocals ==
    /\ pc' = "idle" /\ row_count' = 0 /\ chunk_size' = 0 /\ i' = 0
    /\ chunks' = <<>> /\ requests' = <<>>
    /\ constraints' = None

\* the handler up to the loop: engineer_prompt, chunks = [], num_chunks
GenerateStart(RowCounts, ChunkSizes) ==
    /\ pc = "idle"
    /\ \E rows \in RowCounts, size \in ChunkSizes, use_prompt_engineering \in BOOLEAN,
          engineered \in BOOLEAN :
        /\ op' = [name |-> "generate"]
        /\ row_count' = rows /\ chunk_size' = size
        /\ i' = 0 /\ chunks' = <<>> /\ requests' = <<>>
        /\ msgs' = {} /\ result' = None
        /\ IF use_prompt_engineering /\ ~engineered
           THEN \* engineer_prompt raises: nothing catches it
                /\ events' = <<"engineer_prompt">>
                /\ unhandled' = TRUE /\ pc' = "idle"
           ELSE /\ events' = IF use_prompt_engineering
                             THEN <<"engineer_prompt">> ELSE <<>>
                /\ unhandled' = FALSE /\ pc' = "gen"
    /\ constraints' = None
    /\ UNCHANGED <<generated_data, gan_data, metadata, transformation_code>>

\* one pass of the loop body: one call of generate_data_chunk
GenerateChunk(Answers) ==
    /\ pc = "gen"
    /\ i < NumChunks(row_count, chunk_size)
    /\ requests' = Append(requests,
            [index |-> i, rows |-> CurrentChunkSize(row_count, chunk_size, i)])
    /\ events' = Append(events, "generate_data_chunk")
    /\ \/ \E response \in Answers :
            LET chunk_data == Strip(response) IN
            /\ chunks' = IF chunk_data # EmptyText
                         THEN Append(chunks, chunk_data) ELSE chunks
            /\ i' = i + 1
            /\ UNCHANGED <<pc, unhandled>>
       \/ \* the service call raises: nothing catches it
          /\ unhandled' = TRUE /\ pc' = "idle"
          /\ UNCHANGED <<chunks, i>>
    /\ UNCHANGED <<generated_data, gan_data, metadata, transformation_code,
                   row_count, chunk_size, constraints, result, op, msgs>>

\* after the loop: stitch the chunks and parse the text
GenerateFinish ==
    /\ pc = "gen"
    /\ i = NumChunks(row_count, chunk_size)
    /\ pc' = "idle"
    /\ IF chunks = <<>>
       THEN \* chunks[0] is an IndexError outside the try
            /\ unhandled' = TRUE
            /\ UNCHANGED <<generated_data, result, msgs>>
       ELSE LET full_data == Stitch(chunks)
                parsed == read_csv(full_data)
            IN /\ result' = [full_data |-> full_data]
               /\ unhandled' = FALSE
               /\ IF IsRaise(parsed)
                  THEN /\ msgs' = {"error"}
                       /\ UNCHANGED generated_data
                  ELSE /\ msgs' = {"success"}
                       /\ generated_data' = parsed
    /\ events' = Append(events, "stitch")
    /\ UNCHANGED <<gan_data, metadata, transformation_code, row_count, chunk_size,
                   i, chunks, requests, constraints, op>>

\* the session state after the script's first run
Init ==
    /\ generated_data = None /\ gan_data = None /\ metadata = None
    /\ transformation_code = None
    /\ Idle
    /\ constraints = None /\ result = None /\ op = [name |-> "init"]
    /\ msgs = {} /\ unhandled = FALSE /\ events = <<>>

MaxRowCount == 3
MaxChunkSize == 2

NextGenerate ==
    \/ GenerateStart(1..MaxRowCount, 1..MaxChunkSize)
    \/ GenerateChunk(Responses)
    \/ GenerateFinish

SpecGenerate == Init /\ [][NextGenerate]_vars

----------------------------------------------------------------------------
(* Metadata: a function from column names to sdtypes *)

SdTypes == {"categorical", "numerical", "datetime", "boolean"}

\* Metadata.detect_from_dataframes: numeric storage is numerical, the rest
\* categorical
Detect(data) ==
    [column \in DOMAIN data |->
        IF is_numeric_dtype(data[column]) THEN "numerical" ELSE "categorical"]

\* metadata.update_column(column, sdtype=...)
update_column(md, column, sdtype) == [md EXCEPT ![column] = sdtype]

\* len(data[id_column].unique()) == len(data)
AllUnique(col) ==
    Cardinality({col.vals[k] : k \in 1..Len(col.vals)}) = Len(col.vals)

\* the options of the id selectbox
IdOptions(data) == {"None"} \cup DOMAIN data

\* the columns that get a type selectbox
TypedColumns(data, id_column) ==
    {column \in DOMAIN data : column # id_column \/ id_column = "None"}

\* the type selectboxes' values: one of the options for every typed column
TypeChoices(data, id_column, Options) ==
    [TypedColumns(data, id_column) -> Options]

\* the for loop of update_column calls over a mapping
ApplyTypes(md, column_types) ==
    [column \in DOMAIN md |->
        IF column \in DOMAIN column_types THEN column_types[column]
        ELSE md[column]]

\* create_metadata, with the values its widgets return
create_metadata(data, id_column, col_type) ==
    LET detected == Detect(data)
        keyed == IF id_column = "None" THEN detected
                 ELSE IF AllUnique(data[id_column])
                      THEN update_column(detected, id_column, "id")
                      ELSE update_column(detected, id_column, "numerical")
    IN ApplyTypes(keyed, col_type)

\* a slip: the uniqueness test is dropped
BuildMetadata_NoUniqueCheck(data, id_column, column_types) ==
    LET typed == ApplyTypes(Detect(data), column_types)
    IN IF id_column # "None" THEN update_column(typed, id_column, "id")
       ELSE typed

\* the metadata the Apply Data Configuration handler builds
BuildMetadata(data, id_column, column_types) ==
    LET typed == ApplyTypes(Detect(data), column_types)
    IN IF id_column # "None" /\ AllUnique(data[id_column])
       THEN update_column(typed, id_column, "id")
       ELSE typed

\* len(data)
RowCount(data) == Len(data[CHOOSE column \in DOMAIN data : TRUE].vals)

\* the cardinality check that runs before the button: unique_count / total_rows
\* is a ZeroDivisionError for a categorical column of a frame without rows
CardinalityCheckRaises(data, column_types) ==
    /\ RowCount(data) = 0
    /\ \E column \in DOMAIN column_types : column_types[column] = "categorical"

\* Apply Data Configuration, with the values of the id and type selectboxes;
\* detected: the metadata library raised nothing
ApplyDataConfiguration(Options) ==
    /\ pc = "idle"
    /\ generated_data # None
    /\ \E id_column \in IdOptions(generated_data), detected \in BOOLEAN :
       \E column_types \in TypeChoices(generated_data, id_column, Options) :
        /\ op' = [name |-> "apply_config", id_column |-> id_column,
                  column_types |-> column_types]
        /\ IF CardinalityCheckRaises(generated_data, column_types)
           THEN \* the script stops before it reaches the button
                /\ msgs' = {} /\ unhandled' = TRUE
                /\ UNCHANGED metadata
           ELSE IF detected
           THEN /\ metadata' = BuildMetadata(generated_data, id_column, column_types)
                /\ msgs' = {"success"}
                       \cup IF id_column # "None"
                               /\ ~AllUnique(generated_data[id_column])
                            THEN {"warning"} ELSE {}
                /\ unhandled' = FALSE
           ELSE /\ msgs' = {"error"} /\ unhandled' = FALSE
                /\ UNCHANGED metadata
    /\ result' = None /\ events' = <<>>
    /\ NoLocals
    /\ UNCHANGED <<generated_data, gan_data, transformation_code>>

\* a call create_metadata(generated_data, ...)
CallCreateMetadata ==
    /\ pc = "idle"
    /\ generated_data # None
    /\ \E id_column \in IdOptions(generated_data) :
       \E col_type \in TypeChoices(generated_data, id_column, SdTypes) :
        /\ op' = [name |-> "create_metadata", id_column |-> id_column,
                  column_types |-> col_type]
        /\ result' = [metadata |-> create_metadata(generated_data, id_column, col_type)]
    /\ msgs' = {} /\ unhandled' = FALSE /\ events' = <<>>
    /\ NoLocals
    /\ UNCHANGED <<generated_data, gan_data, metadata, transformation_code>>

InitMetadata ==
    /\ generated_data \in DataFrames(MaxRows)
    /\ gan_data = None /\ metadata = None /\ transformation_code = None
    /\ Idle
    /\ constraints = None /\ result = None /\ op = [name |-> "init"]
    /\ msgs = {} /\ unhandled = FALSE /\ events = <<>>

NextMetadata ==
    \/ ApplyDataConfiguration(SdTypes)
    \/ CallCreateMetadata

SpecMetadata == InitMetadata /\ [][NextMetadata]_vars

----------------------------------------------------------------------------
(* Upload *)

\* pd.read_csv / pd.read_excel of the uploaded file: the frame it holds, or an
\* exception for a file that cannot be read
Upload(Files) ==
    /\ pc = "idle"
    /\ \E uploaded_file \in Files \cup {Raise("read")} :
        /\ op' = [name |-> "upload"]
        /\ IF IsRaise(uploaded_file)
           THEN /\ msgs' = {"error"}
                /\ UNCHANGED generated_data
           ELSE /\ msgs' = {"success"}
                /\ generated_data' = uploaded_file
    /\ result' = None /\ unhandled' = FALSE /\ events' = <<>>
    /\ NoLocals
    /\ UNCHANGED <<gan_data, metadata, transformation_code>>

----------------------------------------------------------------------------
(* Data transformation *)

\* DataFrame.head(n)
HeadRows(data, n) ==
    [column \in DOMAIN data |->
        [data[column] EXCEPT !.vals = SubSeq(@, 1, Min(n, Len(@)))]]

\* what the service may answer when asked for transformation code
CodeAnswers ==
    {"'''df = df.head(1)'''", "del df", "df = df.head(1); raise ValueError()"}

\* clean_generated_code: the fence markers go, then strip()
clean_generated_code(code_text) ==
    IF code_text = "'''df = df.head(1)'''" THEN "df = df.head(1)"
    ELSE code_text

\* exec(code, {}, local_vars), local_vars = {"df": df}: the local variables
\* left, and whether the code raised
Exec(code, df) ==
    IF code = "df = df.head(1)"
    THEN [raised |-> FALSE, local_vars |-> [df |-> HeadRows(df, 1)]]
    ELSE IF code = "del df"
    THEN [raised |-> FALSE, local_vars |-> [x \in {} |-> df]]
    ELSE [raised |-> TRUE, local_vars |-> [df |-> HeadRows(df, 1)]]

\* Generate Transformation Code
GenerateTransformationCode(Answers) ==
    /\ pc = "idle"
    /\ generated_data # None
    /\ \E response \in Answers, answered \in BOOLEAN :
        /\ op' = [name |-> "generate_transformation"]
        /\ IF ~answered
           THEN \* the service call raises inside the try
                /\ msgs' = {"error"}
                /\ UNCHANGED transformation_code
           ELSE /\ msgs' = {}
                /\ transformation_code' = [code |-> clean_generated_code(response)]
    /\ events' = <<"generate_content">>
    /\ result' = None /\ unhandled' = FALSE
    /\ NoLocals
    /\ UNCHANGED <<generated_data, gan_data, metadata>>

\* Test Transformation Code
TestTransformationCode ==
    /\ pc = "idle"
    /\ generated_data # None
    /\ transformation_code # None
    /\ LET ran == Exec(transformation_code.code, HeadRows(generated_data, 10)) IN
        /\ op' = [name |-> "test_transformation"]
        /\ events' = <<"exec">>
        /\ IF ran.raised THEN /\ msgs' = {"error"} /\ result' = None
           ELSE IF "df" \in DOMAIN ran.local_vars
           THEN /\ msgs' = {} /\ result' = [test_transformed |-> ran.local_vars.df]
           ELSE /\ msgs' = {"error"} /\ result' = None
    /\ unhandled' = FALSE
    /\ NoLocals
    /\ UNCHANGED <<generated_data, gan_data, metadata, transformation_code>>

\* a slip: the rollback is missing, a failed run keeps what the code left in df
ApplyTransformationCode_NoRollback ==
    /\ pc = "idle"
    /\ generated_data # None
    /\ transformation_code # None
    /\ LET ran == Exec(transformation_code.code, generated_data) IN
        /\ op' = [name |-> "apply_transformation"]
        /\ events' = <<"exec">>
        /\ msgs' = IF ran.raised \/ "df" \notin DOMAIN ran.local_vars
                   THEN {"error"} ELSE {"success"}
        /\ generated_data' = IF "df" \in DOMAIN ran.local_vars
                             THEN ran.local_vars.df ELSE generated_data
    /\ result' = None
    /\ unhandled' = FALSE
    /\ NoLocals
    /\ UNCHANGED <<gan_data, metadata, transformation_code>>

\* Apply Transformation Code
ApplyTransformationCode ==
    /\ pc = "idle"
    /\ generated_data # None
    /\ transformation_code # None
    /\ LET original_data == generated_data
           ran == Exec(transformation_code.code, generated_data)
       IN
        /\ op' = [name |-> "apply_transformation"]
        /\ events' = <<"exec">>
        /\ IF ran.raised
           THEN /\ msgs' = {"error"} /\ generated_data' = original_data
           ELSE IF "df" \in DOMAIN ran.local_vars
           THEN /\ msgs' = {"success"} /\ generated_data' = ran.local_vars.df
           ELSE /\ msgs' = {"error"} /\ generated_data' = original_data
    /\ result' = None /\ unhandled' = FALSE
    /\ NoLocals
    /\ UNCHANGED <<gan_data, metadata, transformation_code>>

----------------------------------------------------------------------------
(* Constraint text *)

EmptyMap == [x \in {} |-> 0]

\* the texts the constraint text area may hold
JsonTexts == {"{}", "{\"a\": {\"min\": 1, \"max\": 1}}", "{\"a\": {\"min\": 1"}

\* json.loads
json_loads(json_text) ==
    IF json_text = "{}" THEN EmptyMap
    ELSE IF json_text = "{\"a\": {\"min\": 1, \"max\": 1}}"
    THEN [a |-> [min |-> 1, max |-> 1]]
    ELSE Raise("JSONDecodeError")

validate_json_format(json_text) == ~IsRaise(json_loads(json_text))

\* Validate JSON
ValidateJSON(Texts) ==
    /\ pc = "idle"
    /\ generated_data # None
    /\ \E constraints_json \in Texts :
        /\ op' = [name |-> "validate_json", constraints_json |-> constraints_json]
        /\ msgs' = IF validate_json_format(constraints_json)
                   THEN {"success"} ELSE {"error"}
    /\ events' = <<"json.loads">>
    /\ result' = None /\ unhandled' = FALSE
    /\ NoLocals
    /\ UNCHANGED <<generated_data, gan_data, metadata, transformation_code>>

\* Reset Column Types
ResetColumnTypes ==
    /\ pc = "idle"
    /\ generated_data # None
    /\ op' = [name |-> "reset"]
    /\ metadata' = None
    /\ msgs' = {} /\ events' = <<>>
    /\ result' = None /\ unhandled' = FALSE
    /\ NoLocals
    /\ UNCHANGED <<generated_data, gan_data, transformation_code>>

----------------------------------------------------------------------------
(* Train Custom Model *)

ModelKinds == {"CTGAN", "TVAE", "CopulaGAN"}

\* what the external trainer does in one run: its constructor raises, fit
\* raises, sample raises, or sample returns a frame
TrainerRuns(Samples) ==
    {[fails |-> step] : step \in {"construct", "fit", "sample"}}
    \cup {[sample |-> frame] : frame \in Samples}

Fails(trainer, step) == "fails" \in DOMAIN trainer /\ trainer.fails = step

\* a slip: an unknown name trains the first kind
train_synthesizer_Default(model_choice, trainer) ==
    IF Fails(trainer, "construct")
    THEN [status |-> "raised", events |-> <<"construct">>, msgs |-> {}]
    ELSE IF Fails(trainer, "fit")
    THEN [status |-> "raised", events |-> <<"construct", "fit">>, msgs |-> {}]
    ELSE [status |-> "fitted", events |-> <<"construct", "fit">>, msgs |-> {}]

\* train_synthesizer; status "none" is the returned None
train_synthesizer(model_choice, trainer) ==
    IF model_choice \in ModelKinds
    THEN IF Fails(trainer, "construct")
         THEN [status |-> "raised", events |-> <<"construct">>, msgs |-> {}]
         ELSE IF Fails(trainer, "fit")
         THEN [status |-> "raised", events |-> <<"construct", "fit">>, msgs |-> {}]
         ELSE [status |-> "fitted", events |-> <<"construct", "fit">>, msgs |-> {}]
    ELSE [status |-> "none", events |-> <<>>, msgs |-> {"Invalid model selection"}]

\* a slip: the metadata is not read before the trainer is built
TrainRun_NoMetadataCheck(constraints_json, model_choice, trainer) ==
    LET loaded == json_loads(constraints_json)
        failed(evs, ms) ==
            [events |-> evs, msgs |-> ms \cup {"Model failed"},
             gan_data |-> gan_data, result |-> None,
             constraints |-> IF IsRaise(loaded) THEN None ELSE loaded]
        synthesizer == train_synthesizer(model_choice, trainer)
        trained == <<"json.loads", "to_dict">> \o synthesizer.events
    IN IF IsRaise(loaded) THEN failed(<<"json.loads">>, {})
       ELSE IF synthesizer.status = "raised" THEN failed(trained, {})
       ELSE IF synthesizer.status = "none" THEN failed(trained, synthesizer.msgs)
       ELSE IF Fails(trainer, "sample") THEN failed(Append(trained, "sample"), {})
       ELSE LET validation_results ==
                    validate_synthetic_data(generated_data, trainer.sample, loaded)
            IN [events |-> trained \o <<"sample", "validate">>,
                msgs |-> IF IsRaise(validation_results)
                         THEN {"Model failed"} ELSE {"success"},
                gan_data |-> trainer.sample,
                result |-> IF IsRaise(validation_results)
                           THEN None ELSE validation_results,
                constraints |-> loaded]

\* the body of the handler's try, up to the exception that ends it, if any
TrainRun(constraints_json, model_choice, trainer) ==
    LET loaded == json_loads(constraints_json)
        failed(evs, ms) ==
            [events |-> evs, msgs |-> ms \cup {"Model failed"},
             gan_data |-> gan_data, result |-> None,
             constraints |-> IF IsRaise(loaded) THEN None ELSE loaded]
        synthesizer == train_synthesizer(model_choice, trainer)
        trained == <<"json.loads", "to_dict">> \o synthesizer.events
    IN IF IsRaise(loaded) THEN failed(<<"json.loads">>, {})
       ELSE IF metadata = None THEN failed(<<"json.loads", "to_dict">>, {})
       ELSE IF synthesizer.status = "raised" THEN failed(trained, {})
       ELSE IF synthesizer.status = "none" THEN failed(trained, synthesizer.msgs)
       ELSE IF Fails(trainer, "sample") THEN failed(Append(trained, "sample"), {})
       ELSE LET validation_results ==
                    validate_synthetic_data(generated_data, trainer.sample, loaded)
            IN [events |-> trained \o <<"sample", "validate">>,
                msgs |-> IF IsRaise(validation_results)
                         THEN {"Model failed"} ELSE {"success"},
                gan_data |-> trainer.sample,
                result |-> IF IsRaise(validation_results)
                           THEN None ELSE validation_results,
                constraints |-> loaded]

\* Train Custom Model
Train(Texts, Choices, Samples) ==
    /\ pc = "idle"
    /\ generated_data # None
    /\ \E constraints_json \in Texts, model_choice \in Choices,
          trainer \in TrainerRuns(Samples) :
        LET run == TrainRun(constraints_json, model_choice, trainer)
        IN /\ op' = [name |-> "train", constraints_json |-> constraints_json,
                     model_choice |-> model_choice]
           /\ events' = run.events
           /\ msgs' = run.msgs
           /\ gan_data' = run.gan_data
           /\ result' = run.result
           /\ constraints' = run.constraints
    /\ unhandled' = FALSE
    /\ pc' = "idle" /\ row_count' = 0 /\ chunk_size' = 0 /\ i' = 0
    /\ chunks' = <<>> /\ requests' = <<>>
    /\ UNCHANGED <<generated_data, metadata, transformation_code>>

----------------------------------------------------------------------------
(* The session: every handler, on small inputs *)

UploadFiles ==
    {[a |-> NumColumn(<<1, 2>>)],
     [a |-> ObjColumn(<<"x", "x">>), b |-> NumColumn(<<1, 1>>)]}

SampleOutputs ==
    {[a |-> NumColumn(<<0, 2>>)],
     [a |-> ObjColumn(<<"x">>), b |-> NumColumn(<<1>>)]}

\* the three kinds the selectbox offers and a name train_synthesizer rejects
ModelChoices == ModelKinds \cup {"GAN"}

Next ==
    \/ GenerateStart({1, 2}, {1})
    \/ GenerateChunk({<<"a", "1">>, <<"">>})
    \/ GenerateFinish
    \/ Upload(UploadFiles)
    \/ ApplyDataConfiguration({"categorical", "numerical"})
    \/ GenerateTransformationCode(CodeAnswers)
    \/ TestTransformationCode
    \/ ApplyTransformationCode
    \/ ValidateJSON(JsonTexts)
    \/ ResetColumnTypes
    \/ Train(JsonTexts, ModelChoices, SampleOutputs)

Spec == Init /\ [][Next]_vars

----------------------------------------------------------------------------
(* Claims *)

Validated == op.name = "validate" /\ ~IsRaise(result)

\* one row's contribution: 1 when strictly below min, 1 when strictly above max
RowViolations(v, lo, hi) ==
    (IF v < lo THEN 1 ELSE 0) + (IF v > hi THEN 1 ELSE 0)

RECURSIVE RowsViolations(_, _, _)
RowsViolations(s, lo, hi) ==
    IF s = <<>> THEN 0
    ELSE RowViolations(Head(s), lo, hi) + RowsViolations(Tail(s), lo, hi)

\* C1: in the report of validate_synthetic_data, a column whose constraint
\* declares both min and max has constraint_violations = (synthetic rows
\* strictly below min) + (synthetic rows strictly above max), whatever the
\* original column holds; a column with no constraint entry has 0.
C1_ConstraintViolations ==
    Validated =>
        \A column \in DOMAIN generated_data :
            LET e == result.report[column] IN
            /\ (column \in DOMAIN constraints
                /\ {"min", "max"} \subseteq DOMAIN constraints[column])
               => e.constraint_violations =
                    RowsViolations(gan_data[column].vals,
                                   constraints[column].min,
                                   constraints[column].max)
            /\ column \notin DOMAIN constraints => e.constraint_violations = 0

\* a validated column with rows below min and a row equal to a bound
C1_Witness ==
    /\ Validated
    /\ "a" \in DOMAIN constraints
    /\ {"min", "max"} \subseteq DOMAIN constraints.a
    /\ "b" \in DOMAIN generated_data
    /\ \E k \in 1..Len(gan_data.a.vals) : gan_data.a.vals[k] < constraints.a.min
    /\ \E k \in 1..Len(gan_data.a.vals) : gan_data.a.vals[k] = constraints.a.max
    /\ result.report.a.constraint_violations = 1
    /\ result.report.b.constraint_violations = 0

----------------------------------------------------------------------------
(* Generate Initial Dataset: the chunk requests (C2) *)

InGenerate == op.name = "generate"

\* the loop ran to its end and the handler went on to stitch the chunks
LoopDone == InGenerate /\ \E k \in 1..Len(events) : events[k] = "stitch"

RECURSIVE SumRows(_)
SumRows(rs) == IF rs = <<>> THEN 0 ELSE Head(rs).rows + SumRows(Tail(rs))

\* C2: the chunk requests are issued one at a time in index order, each index
\* once (an empty answer is not asked for again), every request asks for
\* between 1 and chunk_size rows, and when the loop has run to its end the
\* requested rows sum to row_count, in exactly ceil(row_count / chunk_size)
\* requests.
C2_ChunkRequests ==
    InGenerate =>
        /\ \A k \in 1..Len(requests) :
            /\ requests[k].index = k - 1
            /\ requests[k].rows >= 1
            /\ requests[k].rows <= chunk_size
        /\ Len(requests) \in {i, i + 1}
        /\ Len(requests) = i + 1 => (unhandled /\ pc = "idle")
        /\ SumRows(requests) <= row_count
        /\ LoopDone =>
            /\ SumRows(requests) = row_count
            /\ Len(requests) * chunk_size >= row_count
            /\ (Len(requests) - 1) * chunk_size < row_count

\* three rows in chunks of two: two requests, the last for one row, and one of
\* the two answers was empty and was not asked for again
C2_Witness ==
    /\ LoopDone
    /\ row_count = 3 /\ chunk_size = 2
    /\ Len(requests) = 2 /\ requests[2].rows = 1
    /\ Len(chunks) = 1

----------------------------------------------------------------------------
(* Generate Initial Dataset: the stitching (C3) *)

Stitched == InGenerate /\ "full_data" \in DOMAIN result

RECURSIVE Flatten(_)
Flatten(ss) == IF ss = <<>> THEN <<>> ELSE Head(ss) \o Flatten(Tail(ss))

\* every later chunk's lines without its first line
TailsOf(cs) == [k \in 1..Len(cs) |-> Tail(cs[k])]

\* the same, a chunk of one line leaving one empty line
BodiesOf(cs) ==
    [k \in 1..Len(cs) |-> IF Len(cs[k]) = 1 THEN <<"">> ELSE Tail(cs[k])]

NonBlank(text) == SelectSeq(text, LAMBDA l : l # "")

\* C3 as stated: the stitched text is the first chunk's lines followed by every
\* later chunk's lines without its first line.
C3_AsStated ==
    Stitched => result.full_data = chunks[1] \o Flatten(TailsOf(Tail(chunks)))

\* C3: the stitched text is the first received chunk's lines followed by, for
\* each later chunk in request order, that chunk's lines without its first
\* line, or one empty line when the chunk has only one line; so when every
\* chunk starts with the header line and the text parses, the table has the
\* header as its one column name and the data rows of all chunks in order.
C3_Stitching ==
    Stitched =>
        /\ result.full_data = chunks[1] \o Flatten(BodiesOf(Tail(chunks)))
        /\ ((\A k \in 1..Len(chunks) : chunks[k][1] = "a") /\ msgs = {"success"})
            => /\ DOMAIN generated_data = {"a"}
               /\ Len(generated_data.a.vals)
                    = Len(NonBlank(Flatten(TailsOf(chunks))))
               /\ \A k \in 1..Len(generated_data.a.vals) :
                    generated_data.a.vals[k]
                        = ToNum(NonBlank(Flatten(TailsOf(chunks)))[k])

\* three chunks starting with the header, the middle one the header alone,
\* stitched and parsed into the rows of the first and the third
C3_Witness ==
    /\ Stitched
    /\ chunks = <<(<<"a", "1">>), (<<"a">>), (<<"a", "2">>)>>
    /\ msgs = {"success"}
    /\ generated_data.a.vals = <<1, 2>>

----------------------------------------------------------------------------
(* Generate Initial Dataset: failures (C4) *)

GenerateEnded == InGenerate /\ pc = "idle"

\* a chunk request raised, a request brought no usable chunk, or the stitched
\* text did not parse
GenerateFailed ==
    \/ Len(requests) > i
    \/ Len(chunks) < i
    \/ "error" \in msgs

\* C4: when a chunk request fails, brings no usable chunk, or the stitched text
\* does not parse, the operation still ends with a complete seed dataset
\* (the offline fallback), never without one and never with a partial table.
C4_FallbackOnFailure ==
    (GenerateEnded /\ GenerateFailed) =>
        /\ ~unhandled
        /\ msgs = {"success"}
        /\ generated_data # None

----------------------------------------------------------------------------
(* Metadata building (C5, C6) *)

\* the metadata the last operation built
Applied == op.name = "apply_config" /\ msgs \cap {"success"} # {}
Created == op.name = "create_metadata"
Built == IF Created THEN result.metadata ELSE metadata

\* C5: in both metadata-building paths an id candidate ends as 'id' exactly
\* when its values are all distinct, and with a duplicate it keeps the type it
\* would otherwise have (no type is chosen for the candidate, so the detected
\* one).
C5_IdDesignation ==
    ((Applied \/ Created) /\ op.id_column # "None") =>
        LET column == op.id_column
            unique == AllUnique(generated_data[column])
        IN /\ Built[column] = "id" <=> unique
           /\ ~unique => Built[column] = Detect(generated_data)[column]

----------------------------------------------------------------------------
(* Train Custom Model: an unsupported model kind (C7) *)

Happened(step) == \E k \in 1..Len(events) : events[k] = step

\* C7: a Train operation with a model kind other than CTGAN, TVAE, CopulaGAN
\* ends in a reported error and stops: no trainer is built, fit and sample are
\* not called, gan_data is not assigned, nothing is left uncaught; when the
\* constraint text parses and metadata is configured the error reported is
\* the invalid model selection.
C7_UnsupportedModelKind ==
    [][(op'.name = "train" /\ op'.model_choice \notin ModelKinds) =>
        /\ ~unhandled'
        /\ gan_data' = gan_data
        /\ \A k \in 1..Len(events') :
                events'[k] \notin {"construct", "fit", "sample", "validate"}
        /\ "Model failed" \in msgs'
        /\ "success" \notin msgs'
        /\ (validate_json_format(op'.constraints_json) /\ metadata # None)
            => "Invalid model selection" \in msgs']_vars

\* the unsupported kind GAN, requested with well-formed constraints, metadata
\* configured and an earlier synthetic output in the session
C7_Witness ==
    /\ op.name = "train"
    /\ op.model_choice = "GAN"
    /\ validate_json_format(op.constraints_json)
    /\ metadata # None
    /\ gan_data # None
    /\ msgs = {"Invalid model selection", "Model failed"}
    /\ events = <<"json.loads", "to_dict">>

----------------------------------------------------------------------------
(* Malformed constraint text (C8) *)

\* C8: constraint text that does not parse is never fatal: Validate JSON ends
\* without an uncaught exception, and a Train operation uses the empty mapping
\* and goes on past the parsing.
C8_MalformedNotFatal ==
    /\ op.name = "validate_json" => ~unhandled
    /\ (op.name = "train" /\ ~validate_json_format(op.constraints_json))
        => /\ constraints = EmptyMap
           /\ Happened("to_dict")

----------------------------------------------------------------------------
(* Data transformation (C9) *)

TransformationOps ==
    {"generate_transformation", "test_transformation", "apply_transformation"}

\* C9: the transformation operations execute no code and leave the stored seed
\* dataset as it was.
C9_TransformationDisabled ==
    [][op'.name \in TransformationOps =>
        /\ generated_data' = generated_data
        /\ \A k \in 1..Len(events') : events'[k] # "exec"]_vars

----------------------------------------------------------------------------
(* Independence of runs (C10) *)

\* a new seed dataset has just been stored by Upload or Generate
NewSeed == op.name \in {"upload", "generate"} /\ msgs = {"success"}

\* C10: once a new seed dataset is stored the session holds no metadata and no
\* synthetic output, which could only come from an earlier seed dataset.
C10_RunsIndependent ==
    NewSeed => (metadata = None /\ gan_data = None)

----------------------------------------------------------------------------
(* validate_synthetic_data: failures, single bounds, bounds out of order   *)
(* (C11, C12, C13)                                                         *)

\* C11: validate_synthetic_data always returns a report with one entry per
\* original column: a column missing from the synthetic data, or a synthetic
\* column of strings compared with a numeric bound, does not abort it; mean
\* and standard deviation are absent for every non-numeric column.
C11_ValidatorRobust ==
    op.name = "validate" =>
        /\ ~IsRaise(result)
        /\ DOMAIN result.report = DOMAIN generated_data
        /\ \A column \in DOMAIN generated_data :
            /\ generated_data[column].dtype # "num"
                => /\ result.report[column].original_mean = None
                   /\ result.report[column].original_std = None
            /\ (column \in DOMAIN gan_data /\ gan_data[column].dtype # "num")
                => /\ result.report[column].synthetic_mean = None
                   /\ result.report[column].synthetic_std = None

RECURSIVE RowsBelow(_, _)
RowsBelow(s, lo) ==
    IF s = <<>> THEN 0
    ELSE (IF Head(s) < lo THEN 1 ELSE 0) + RowsBelow(Tail(s), lo)

RECURSIVE RowsAbove(_, _)
RowsAbove(s, hi) ==
    IF s = <<>> THEN 0
    ELSE (IF Head(s) > hi THEN 1 ELSE 0) + RowsAbove(Tail(s), hi)

\* the validated columns whose constraint entry declares exactly the bounds ks
Declaring(ks) ==
    {column \in DOMAIN generated_data \cap DOMAIN constraints :
        DOMAIN constraints[column] = ks}

\* C12 as stated: a column whose constraint declares only one of min and max
\* has constraint_violations = 0.
C12_AsStated ==
    Validated =>
        \A column \in Declaring({"min"}) \cup Declaring({"max"}) :
            result.report[column].constraint_violations = 0

\* C12: a column whose constraint declares only min has constraint_violations
\* = the synthetic rows strictly below min, one declaring only max the
\* synthetic rows strictly above max: the absent bound adds nothing.
C12_SingleBound ==
    Validated =>
        /\ \A column \in Declaring({"min"}) :
            result.report[column].constraint_violations
                = RowsBelow(gan_data[column].vals, constraints[column].min)
        /\ \A column \in Declaring({"max"}) :
            result.report[column].constraint_violations
                = RowsAbove(gan_data[column].vals, constraints[column].max)

\* only min declared, one synthetic row below it and one not
C12_Witness ==
    /\ Validated
    /\ constraints = [a |-> [min |-> 1]]
    /\ gan_data.a.vals = <<0, 1>>
    /\ result.report.a.constraint_violations = 1

\* the validated columns whose bounds are declared with min > max
OutOfOrder ==
    {column \in Declaring({"min", "max"}) :
        constraints[column].min > constraints[column].max}

\* C13 as stated: with min > max every synthetic row counts against both
\* bounds, constraint_violations = 2 x rows.
C13_AsStated ==
    Validated =>
        \A column \in OutOfOrder :
            result.report[column].constraint_violations
                = 2 * Len(gan_data[column].vals)

RECURSIVE RowsBetween(_, _, _)
RowsBetween(s, lo, hi) ==
    IF s = <<>> THEN 0
    ELSE (IF lo < Head(s) /\ Head(s) < hi THEN 1 ELSE 0)
         + RowsBetween(Tail(s), lo, hi)

\* C13: bounds with min > max are used as they are: every synthetic row counts
\* against at least one bound, and against both exactly when its value lies
\* strictly between max and min, so constraint_violations = rows + (rows with
\* max < value < min), between rows and 2 x rows.
C13_MalformedBounds ==
    Validated =>
        \A column \in OutOfOrder :
            LET n == result.report[column].constraint_violations
                vals == gan_data[column].vals
            IN /\ n = Len(vals) + RowsBetween(vals, constraints[column].max,
                                              constraints[column].min)
               /\ n >= Len(vals)
               /\ n <= 2 * Len(vals)

\* min = 2 > max = 0: the row 0 counts once, the row 1 twice
C13_Witness ==
    /\ Validated
    /\ constraints = [a |-> [min |-> 2, max |-> 0]]
    /\ gan_data.a.vals = <<0, 1>>
    /\ result.report.a.constraint_violations = 3

----------------------------------------------------------------------------
(* Rollback of a failed transformation (C14) *)

\* C14: an Apply Transformation Code that fails (the code raises, or leaves no
\* variable df) leaves the seed dataset as it was before the operation, and
\* Test Transformation Code never changes the seed dataset.
C14_TransformationRollback ==
    [][/\ (op'.name = "apply_transformation" /\ "error" \in msgs')
            => generated_data' = generated_data
       /\ (op'.name = "apply_transformation"
           /\ (Exec(transformation_code.code, generated_data).raised
               \/ "df" \notin DOMAIN
                      Exec(transformation_code.code, generated_data).local_vars))
            => /\ generated_data' = generated_data
               /\ "error" \in msgs'
       /\ op'.name = "test_transformation"
            => generated_data' = generated_data]_vars

\* a failed Apply whose code had cut the two-row seed to one row before raising
C14_Witness ==
    /\ op.name = "apply_transformation"
    /\ msgs = {"error"}
    /\ transformation_code # None
    /\ Exec(transformation_code.code, generated_data).raised
    /\ Exec(transformation_code.code, generated_data).local_vars.df
            # generated_data

----------------------------------------------------------------------------
(* The order of a Train operation and what its failure leaves (C15) *)

TrainSteps == <<"json.loads", "to_dict", "construct", "fit", "sample", "validate">>

\* the steps of evs are the first steps of a full Train, in its order
InTrainOrder(evs) ==
    /\ Len(evs) <= Len(TrainSteps)
    /\ \A k \in 1..Len(evs) : evs[k] = TrainSteps[k]

\* C15: in a Train operation the constraint text is parsed before the trainer
\* is built, fit comes before sample and validation only after sample
\* returned; gan_data is assigned only when fit and sample both completed; a
\* Train that fails on the constraint JSON, on missing metadata, in the
\* trainer's construction, in fit or in sample leaves gan_data, the seed
\* dataset and the metadata unchanged and is reported as an error, not raised.
C15_TrainSequence ==
    [][op'.name = "train" =>
        LET sampled == \E k \in 1..Len(events') : events'[k] = "validate" IN
        /\ InTrainOrder(events')
        /\ events' # <<>>
        /\ ~unhandled'
        /\ generated_data' = generated_data
        /\ metadata' = metadata
        /\ gan_data' # gan_data => sampled
        /\ ~validate_json_format(op'.constraints_json)
            => events' = <<"json.loads">>
        /\ metadata = None => Len(events') <= 2
        /\ ~sampled => /\ gan_data' = gan_data
                       /\ "Model failed" \in msgs'
                       /\ "success" \notin msgs'
        /\ "success" \in msgs' => /\ events' = TrainSteps
                                  /\ gan_data' # None]_vars

\* a Train whose sample raised after fit, in a session that already holds a
\* synthetic output
C15_Witness ==
    /\ op.name = "train"
    /\ events = <<"json.loads", "to_dict", "construct", "fit", "sample">>
    /\ msgs = {"Model failed"}
    /\ gan_data # None
    /\ metadata # None

====
